---- MODULE Spec2Model ----
(***************************************************************************)
(* Model of src/kiosk-os/services/kiosk-agent.py: the KioskAgent's two     *)
(* asyncio tasks (heartbeat_loop, websocket_loop), the command dispatch    *)
(* of process_commands, and the run() supervisor that owns them.           *)
(*                                                                         *)
(* Each task is a position (its pc) in the source; a task only yields at   *)
(* an await that suspends (the HTTP post, an executor action, a sleep,     *)
(* the wait for the next stream message).  The server, the network, the    *)
(* executor and the clock are the environment.                             *)
(***************************************************************************)
EXTENDS Naturals, Integers, Sequences, FiniteSets, TLC

\* ---------------------------------------------------------------- bounds
MaxBatch == 2      \* longest commands array of one heartbeat response
MaxInbox == 1      \* stream messages buffered on the connection, not yet read
TimeStep == 30     \* seconds the clock advances in one Tick

\* ------------------------------------------------------ program constants
HeartbeatInterval == 60   \* config fallback of heartbeat_interval
ReconnectDelay == 30      \* asyncio.sleep(30) of websocket_loop

Min(a, b) == IF a < b THEN a ELSE b
Monus(a, b) == IF a > b THEN a - b ELSE 0

\* ------------------------------------------------------------- commands
\* A command is one element of a commands array (or the data of a stream
\* command message): map says whether it is a JSON mapping, type is its
\* 'type' entry ("absent" when there is none), data says what its 'data'
\* entry is ("map": a mapping or absent, in which case .get('data', {})
\* yields {}; "nonmap": a value without .get).
KnownTypes == {"restart", "update", "install_app", "uninstall_app", "configure"}

Cmd(t, d) == [map |-> TRUE, type |-> t, data |-> d]
NonMapCmd == [map |-> FALSE, type |-> "absent", data |-> "nonmap"]
EmptyMap == Cmd("absent", "map")

Commands ==
    {NonMapCmd, EmptyMap, Cmd("reboot_now", "map")}
        \cup {Cmd(t, "map") : t \in KnownTypes}
        \cup {Cmd("install_app", "nonmap")}

NoCmd == [map |-> FALSE, type |-> "none", data |-> "none"]

\* A dispatch whose last branch is taken for every type it does not list:
\* an unknown type reaches an executor action.
DispatchOutcomeDefaultBranch(c) ==
    IF ~c.map THEN "escape"
    ELSE IF c.type \in KnownTypes \cup {"reboot_now"} THEN "invoke"
    ELSE "unknown"

\* process_commands, one loop iteration, up to the executor call:
\*   "escape"  command.get raises in the try block and again in the except
\*             block's log line, so the error leaves process_commands;
\*   "invoke"  one of the five executor actions is awaited;
\*   "unknown" the else branch logs a warning.
DispatchOutcome(c) ==
    IF ~c.map THEN "escape"
    ELSE IF c.type \in KnownTypes THEN "invoke" ELSE "unknown"

\* A routing with the branches of restart and update exchanged.
ExecutorActionSwapped(t) ==
    CASE t = "restart" -> "update_system"
      [] t = "update" -> "restart_system"
      [] t = "install_app" -> "install_application"
      [] t = "uninstall_app" -> "uninstall_application"
      [] OTHER -> "configure_system"

\* Lines 333-342: the executor action a command type is routed to.
ExecutorAction(t) ==
    CASE t = "restart" -> "restart_system"
      [] t = "update" -> "update_system"
      [] t = "install_app" -> "install_application"
      [] t = "uninstall_app" -> "uninstall_application"
      [] OTHER -> "configure_system"

\* A loop test that runs one position past the end.
MoreCommandsOffByOne(i, n) == i <= n + 1

\* Line 328, the for statement: whether position i of an array of n
\* elements holds an element.
MoreCommands(i, n) == i <= n

\* A loop that does not advance.
NextIndexRepeats(i) == i

\* Line 328, the for statement: the position after i.
NextIndex(i) == i + 1

\* What a command is, as sent: "nonmap" (no mapping), "known" (a mapping
\* whose type is one of the five), "unknown" (any other mapping).
CmdKind(c) ==
    IF ~c.map THEN "nonmap"
    ELSE IF c.type \in KnownTypes THEN "known" ELSE "unknown"

\* Whether the executor action awaited for c can raise: restart_system runs
\* a subprocess (it may raise or not); install_application and
\* uninstall_application call data.get, which raises exactly when data is
\* no mapping; update_system and configure_system only log.
ExecutorRaises(c) ==
    IF c.type = "restart" THEN BOOLEAN
    ELSE IF c.type \in {"install_app", "uninstall_app"} THEN {c.data = "nonmap"}
    ELSE {FALSE}

\* ---------------------------------------------------------------- state
VARIABLES
    supPc,        \* run(): "idle", "gather" (awaiting both tasks),
                  \*        "unwinding" (cancelled in that await, which ends
                  \*        when both tasks have), "stopped" (run is over)
    running,      \* self.running
    session,      \* self.session is set
    hbPc,         \* heartbeat_loop: "init", "top", "collect", "post",
                  \*                 "dispatch", "exec", "sleep", "done"
    hbCancel,     \* heartbeat_task.cancel() was called, not yet delivered
    hbTimer,      \* seconds left of the inter-tick asyncio.sleep(interval)
    hbStatus,     \* this tick's answer: "none", "error", "non200", "ok200"
    hbBody,       \* this tick's response body, see Bodies
    hbLen,        \* length of this tick's commands array
    hbIdx,        \* 1-based position of process_commands in that array
    hbCmd,        \* the element whose executor action is in flight
    hbEvents,     \* this tick's executor invocations: start and finish events
    hbDispatched, \* loop iterations process_commands entered in this tick
    hbRaised,     \* an error left process_commands in this tick
    hbLastKind,   \* what the element last taken from the array was, as sent
    restartStreak,\* completed ticks, while every tick so far was answered
                  \* 200 with exactly one restart command; -1 otherwise
    restartCount, \* restart invocations of the heartbeat channel while
                  \* restartStreak >= 0
    hbInterleaved,\* a stream command's executor action started in this tick
                  \* after one array element finished and before the next
    hbSent,       \* the body the server sent with this tick's non-200
                  \* answer, see Bodies; "none" otherwise
    wsPc,         \* websocket_loop: "init", "top", "connecting", "recv",
                  \*                 "exec", "done"
    wsCancel,     \* websocket_task.cancel() was called, not yet delivered
    websocket,    \* self.websocket: the connection it refers to, or NoConn
    wsConn,       \* the connection of the block of line 396 the task is
                  \* in (its local variable websocket), or NoConn
    openConns,    \* the connections opened at line 396 and not closed yet
    wsPongConn,   \* the connection the pong for the last message went to
    wsFirst,      \* the first connection the agent ever made
    connState,    \* the connection: "none", "open", "remote_closed"
    inbox,        \* number of messages the server has sent on the connection
                  \* and the agent has not read yet; what a message is shows
                  \* when it is read
    wsCmd,        \* the stream command whose executor action is in flight
    wsLast,       \* kind of the last message read on this connection
    wsPongs,      \* pong messages sent while handling that message
    wsInvoked,    \* an executor action was invoked while handling it
    wsRaised,     \* handling it failed and was logged by the receive loop
    wsPrevRaised, \* the same, for the message read before it
    wsRetry,      \* connect_websocket has been called and has got its answer
    wsElapsed     \* seconds since the last attempt or connection ended, up
                  \* to ReconnectDelay; it stops at the next call of
                  \* connect_websocket

hbVars == <<hbPc, hbCancel, hbTimer, hbStatus, hbBody, hbLen, hbIdx, hbCmd,
            hbEvents, hbDispatched, hbRaised, hbLastKind, restartStreak,
            restartCount, hbInterleaved, hbSent>>
wsVars == <<wsPc, wsCancel, websocket, wsConn, openConns, wsPongConn, wsFirst,
            connState, inbox, wsCmd, wsLast,
            wsPongs, wsInvoked, wsRaised, wsPrevRaised, wsRetry, wsElapsed>>
vars == <<supPc, running, session, hbPc, hbCancel, hbTimer, hbStatus, hbBody,
          hbLen, hbIdx, hbCmd, hbEvents, hbDispatched, hbRaised, hbLastKind,
          restartStreak, restartCount, hbInterleaved, hbSent, wsPc, wsCancel,
          websocket, wsConn, openConns, wsPongConn, wsFirst, connState, inbox,
          wsCmd,
          wsLast, wsPongs, wsInvoked, wsRaised, wsPrevRaised, wsRetry,
          wsElapsed>>
supVars == <<supPc, running, session>>

\* Response bodies of an HTTP-200 heartbeat answer:
\*   "unparseable"   response.json() raises
\*   "scalar"        JSON that supports no "in" test (a number, null)
\*   "list"          a JSON array: 'commands' in it is False
\*   "no_commands"   a mapping without a commands entry
\*   "null_commands" a mapping whose commands entry is not iterable
\*   "commands"      a mapping whose commands entry is an array
Bodies == {"unparseable", "scalar", "list", "no_commands", "null_commands",
           "commands"}

MaxTicks == 3      \* ticks over which restartStreak is counted

\* ----------------------------------------------------------- connections
\* Connection objects are named by age: NewConn is the one websockets.connect
\* returned last, OldConn any one it returned before, NoConn is None.  When
\* a connection is made, every name held so far ages.
NoConn == 0
NewConn == 1
OldConn == 2
Aged(c) == IF c = NoConn THEN NoConn ELSE OldConn

\* ------------------------------------------------------ stream messages
\* A raw stream message: valid says whether json.loads accepts it, map
\* whether the parsed value is a mapping, type is its 'type' entry and data
\* what .get('data', {}) yields.
Msg(v, m, t, d) == [valid |-> v, map |-> m, type |-> t, data |-> d]
BadJson == Msg(FALSE, FALSE, "absent", NoCmd)
NonMapMsg == Msg(TRUE, FALSE, "absent", NoCmd)
PingMsg == Msg(TRUE, TRUE, "ping", EmptyMap)
OtherMsg == Msg(TRUE, TRUE, "status", EmptyMap)
CommandMsg(c) == Msg(TRUE, TRUE, "command", c)

\* The data of the command messages the server sends: no mapping, a
\* mapping without type (also what a message without data yields), a type
\* whose action may raise or not, and one whose action raises.
StreamCommands ==
    {NonMapCmd, EmptyMap, Cmd("restart", "map"), Cmd("install_app", "nonmap")}

Messages ==
    {BadJson, NonMapMsg, PingMsg, OtherMsg}
        \cup {CommandMsg(c) : c \in StreamCommands}

\* A handler without the ping branch.
MessageOutcomePingUnhandled(m) ==
    IF ~m.valid THEN "json_error"
    ELSE IF ~m.map THEN "attr_error"
    ELSE IF m.type = "command" THEN "command"
    ELSE "other"

\* json.loads(message) followed by handle_websocket_message(data), up to
\* the call it makes:
\*   "json_error"  json.loads raises
\*   "attr_error"  data.get raises, the parsed value is no mapping
\*   "command"     process_commands([data.get('data', {})])
\*   "ping"        self.websocket.send(pong)
\*   "other"       the warning of the else branch
MessageOutcome(m) ==
    IF ~m.valid THEN "json_error"
    ELSE IF ~m.map THEN "attr_error"
    ELSE IF m.type = "command" THEN "command"
    ELSE IF m.type = "ping" THEN "ping"
    ELSE "other"

\* A receive loop that starts the executor action without awaiting it.
AfterMessageDetached(failed, invoked) == "recv"

\* A receive loop without the try block of lines 401-405: a failure leaves
\* the loop and connect_websocket.
AfterMessageFailureEscapes(failed, invoked) ==
    IF failed THEN "top" ELSE IF invoked THEN "exec" ELSE "recv"

\* Lines 401-405, where the receive loop is after a message was handled:
\* awaiting the executor action it invoked, or waiting for the next
\* message, also when handling it failed (the failure is logged).
AfterMessage(failed, invoked) ==
    IF invoked THEN "exec" ELSE "recv"

\* What a message is, as sent.
MsgKind(m) ==
    IF ~m.valid THEN "invalid_json"
    ELSE IF ~m.map THEN "non_mapping"
    ELSE IF m.type = "command" THEN "command_" \o CmdKind(m.data)
    ELSE IF m.type = "ping" THEN "ping"
    ELSE "other"

\* ----------------------------------------------------------------- Init
\* The state after KioskAgent.__init__: nothing runs, no session, no socket.
Init ==
    /\ supPc = "idle" /\ running = FALSE /\ session = FALSE
    /\ hbPc = "init" /\ hbCancel = FALSE /\ hbTimer = 0
    /\ hbStatus = "none" /\ hbBody = "none" /\ hbLen = 0 /\ hbIdx = 1
    /\ hbCmd = NoCmd /\ hbEvents = <<>> /\ hbDispatched = 0
    /\ hbRaised = FALSE /\ hbLastKind = "none"
    /\ restartStreak = 0 /\ restartCount = 0
    /\ hbInterleaved = FALSE /\ hbSent = "none"
    /\ wsPc = "init" /\ wsCancel = FALSE /\ websocket = NoConn
    /\ wsConn = NoConn /\ openConns = {} /\ wsPongConn = NoConn
    /\ wsFirst = NoConn
    /\ connState = "none" /\ inbox = 0 /\ wsCmd = NoCmd
    /\ wsLast = "none" /\ wsPongs = 0 /\ wsInvoked = FALSE
    /\ wsRaised = FALSE /\ wsPrevRaised = FALSE
    /\ wsRetry = FALSE /\ wsElapsed = 0

\* ------------------------------------------------------------ supervisor
\* A run() that is entered again after it has returned.
StartAgain ==
    /\ supPc \in {"idle", "stopped"}
    /\ supPc' = "gather" /\ running' = TRUE /\ session' = TRUE
    /\ hbPc' = "top" /\ wsPc' = "top"
    /\ UNCHANGED <<hbCancel, hbTimer, hbStatus, hbBody, hbLen, hbIdx, hbCmd,
                   hbEvents, hbDispatched, hbRaised, hbLastKind, restartStreak,
                   restartCount, hbInterleaved, wsCancel, websocket,
                   connState, inbox, wsCmd, wsLast, wsPongs, wsInvoked,
                   wsRaised, wsPrevRaised, wsRetry, wsElapsed>>
    /\ UNCHANGED <<hbSent, wsConn, openConns, wsPongConn, wsFirst>>

\* run(), lines 424-441: set running, open the session, create both tasks
\* and await them with gather.
Start ==
    /\ supPc = "idle"
    /\ supPc' = "gather" /\ running' = TRUE /\ session' = TRUE
    /\ hbPc' = "top" /\ wsPc' = "top"
    /\ UNCHANGED <<hbCancel, hbTimer, hbStatus, hbBody, hbLen, hbIdx, hbCmd,
                   hbEvents, hbDispatched, hbRaised, hbLastKind, restartStreak,
                   restartCount, hbInterleaved, wsCancel, websocket,
                   connState, inbox, wsCmd, wsLast, wsPongs, wsInvoked,
                   wsRaised, wsPrevRaised, wsRetry, wsElapsed>>
    /\ UNCHANGED <<hbSent, wsConn, openConns, wsPongConn, wsFirst>>

\* The history of the messages read on the current connection, cleared.
WsHistoryReset ==
    /\ wsLast' = "none" /\ wsPongs' = 0 /\ wsInvoked' = FALSE
    /\ wsPongConn' = NoConn
    /\ wsRaised' = FALSE /\ wsPrevRaised' = FALSE

\* The history of the heartbeat tick in progress, cleared.
HbHistoryReset ==
    /\ hbStatus' = "none" /\ hbBody' = "none"
    /\ hbEvents' = <<>> /\ hbDispatched' = 0 /\ hbRaised' = FALSE
    /\ hbLastKind' = "none" /\ hbInterleaved' = FALSE
    /\ hbSent' = "none"

\* The awaits at which a task is suspended and a cancellation is delivered.
HbSuspended == {"post", "exec", "sleep"}
WsSuspended == {"connecting", "recv", "exec"}

\* Where a task runs code of its own between two awaits: collecting the
\* system information, walking the commands array, and inside an executor
\* action (which may block without suspending, as restart_system does).
HbInStep == {"collect", "dispatch", "exec"}
WsInStep == {"exec"}

\* The state a task leaves behind when it ends; hbTimer keeps what was
\* left of a sleep the task ended in.
HbEnds ==
    /\ hbPc' = "done" /\ hbCmd' = NoCmd /\ hbTimer' = hbTimer
    /\ hbLen' = 0 /\ hbIdx' = 1
WsEnds ==
    /\ wsPc' = "done" /\ connState' = "none" /\ inbox' = 0
    /\ wsCmd' = NoCmd
    /\ wsConn' = NoConn /\ openConns' = openConns \ {wsConn}

\* A KeyboardInterrupt raised inside a task while it runs between two
\* awaits (inHb: the heartbeat task, else the stream task).  No except
\* clause of the task catches it: the task ends with it, gather hands it
\* to run(), and the handler of lines 446-450 clears running, cancels both
\* tasks and lets run() return without awaiting them.  The other task has
\* its cancellation pending.  The tick and the connection in progress end
\* here, and so do their histories.
Interrupt ==
    /\ supPc = "gather"
    /\ \E inHb \in BOOLEAN :
          \/ /\ inHb /\ hbPc \in HbInStep
             /\ HbEnds /\ hbCancel' = FALSE
             /\ wsCancel' = TRUE
             /\ UNCHANGED <<wsPc, connState, inbox, wsCmd, wsConn, openConns>>
          \/ /\ ~inHb /\ wsPc \in WsInStep
             /\ WsEnds /\ wsCancel' = FALSE
             /\ hbCancel' = TRUE
             /\ UNCHANGED <<hbPc, hbCmd, hbTimer, hbLen, hbIdx>>
    /\ running' = FALSE
    /\ supPc' = "stopped"
    /\ HbHistoryReset /\ WsHistoryReset
    /\ UNCHANGED <<session, restartStreak, restartCount, websocket,
                   wsRetry, wsElapsed>>
    /\ UNCHANGED wsFirst

\* Lines 445 and 496: an interrupt that cancels run() in its await of
\* gather (asyncio.run cancels the main task).  The handler of line 446 is
\* not entered and running keeps its value; gather passes the cancellation
\* on to both tasks and ends when both have ended.  A task suspended in an
\* await, or waiting to resume from one, gets the cancellation there; a
\* task running between two awaits goes on to the next await it reaches.
CancelRun ==
    /\ supPc = "gather"
    /\ supPc' = "unwinding"
    /\ hbCancel' = TRUE /\ wsCancel' = TRUE
    /\ HbHistoryReset /\ WsHistoryReset
    /\ UNCHANGED <<running, session, hbPc, hbTimer, hbLen, hbIdx, hbCmd,
                   restartStreak, restartCount, wsPc, websocket, connState,
                   inbox, wsCmd, wsRetry, wsElapsed>>
    /\ UNCHANGED <<wsConn, openConns, wsFirst>>

\* Line 445: both tasks have ended; the cancelled gather ends and run() is
\* left through the session block of line 433.
RunCancelled ==
    /\ supPc = "unwinding" /\ hbPc = "done" /\ wsPc = "done"
    /\ supPc' = "stopped"
    /\ UNCHANGED <<running, session>>
    /\ UNCHANGED hbVars /\ UNCHANGED wsVars

\* ------------------------------------------------------ heartbeat channel
\* restartStreak after the response turned out to be (single = TRUE) or not
\* to be 200 with exactly one restart command.
StreakAfter(single) == IF single THEN restartStreak ELSE -1
CountAfter(single) == IF single /\ restartStreak >= 0 THEN restartCount ELSE 0

\* A loop that sleeps longer after a tick that did not go as wished.
EndTickBackoff(completed) ==
    /\ hbPc' = "sleep"
    /\ hbTimer' =
          (IF completed THEN HeartbeatInterval
           ELSE HeartbeatInterval + ReconnectDelay)
    /\ hbCmd' = NoCmd
    /\ restartStreak' =
          IF completed /\ restartStreak >= 0 /\ restartStreak < MaxTicks
          THEN restartStreak + 1 ELSE -1
    /\ restartCount' =
          IF completed /\ restartStreak >= 0 /\ restartStreak < MaxTicks
          THEN restartCount ELSE 0

\* send_heartbeat returns and heartbeat_loop reaches asyncio.sleep(interval),
\* line 457.  completed: the tick was answered 200 with exactly one restart.
EndTick(completed) ==
    /\ hbPc' = "sleep"
    /\ hbTimer' = HeartbeatInterval
    /\ hbCmd' = NoCmd
    /\ restartStreak' =
          IF completed /\ restartStreak >= 0 /\ restartStreak < MaxTicks
          THEN restartStreak + 1 ELSE -1
    /\ restartCount' =
          IF completed /\ restartStreak >= 0 /\ restartStreak < MaxTicks
          THEN restartCount ELSE 0

\* heartbeat_loop line 454 and send_heartbeat lines 287-298: test running;
\* when set, send_heartbeat starts to collect the system information.
HbLoopTop ==
    /\ hbPc = "top" /\ ~hbCancel
    /\ hbPc' =
          (IF ~running THEN "done" ELSE IF session THEN "collect" ELSE "sleep")
    /\ hbTimer' = (IF running /\ ~session THEN HeartbeatInterval ELSE 0)
    /\ hbLen' = 0 /\ hbIdx' = 1
    /\ HbHistoryReset
    /\ UNCHANGED <<hbCancel, hbCmd, restartStreak, restartCount>>
    /\ UNCHANGED supVars /\ UNCHANGED wsVars

\* send_heartbeat lines 298-308: get_system_info has returned (it never
\* suspends); the request is built and session.post is awaited.
HbCollect ==
    /\ hbPc = "collect"
    /\ hbPc' = "post"
    /\ UNCHANGED <<hbCancel, hbTimer, hbStatus, hbBody, hbLen, hbIdx, hbCmd,
                   hbEvents, hbDispatched, hbRaised, hbLastKind, restartStreak,
                   restartCount, hbInterleaved, hbSent>>
    /\ UNCHANGED supVars /\ UNCHANGED wsVars

\* Lines 323-324 without the except block: the transport error leaves
\* send_heartbeat and ends heartbeat_loop.
HbPostErrorUncaught ==
    /\ hbPc = "post" /\ ~hbCancel
    /\ hbStatus' = "error"
    /\ hbPc' = "done"
    /\ UNCHANGED <<hbCancel, hbTimer, hbCmd, restartStreak, restartCount,
                   hbBody, hbLen, hbIdx, hbEvents, hbDispatched,
                   hbRaised, hbLastKind, hbInterleaved>>
    /\ UNCHANGED supVars /\ UNCHANGED wsVars
    /\ UNCHANGED hbSent

\* Lines 323-324: the request fails in transport; logged, the tick ends.
HbPostError ==
    /\ hbPc = "post" /\ ~hbCancel
    /\ hbStatus' = "error"
    /\ EndTick(FALSE)
    /\ UNCHANGED <<hbCancel, hbBody, hbLen, hbIdx, hbEvents, hbDispatched,
                   hbRaised, hbLastKind, hbInterleaved>>
    /\ UNCHANGED supVars /\ UNCHANGED wsVars
    /\ UNCHANGED hbSent

\* A send_heartbeat that reads the body whatever the status is.
HbPostAnyStatus ==
    /\ hbPc = "post" /\ ~hbCancel
    /\ hbStatus' = "non200"
    /\ \E b \in Bodies :
          /\ hbSent' = b
          /\ hbBody' = b
          /\ hbRaised' = (b = "null_commands")
          /\ \/ /\ b # "commands"
                /\ EndTick(FALSE)
                /\ UNCHANGED <<hbLen, hbIdx>>
             \/ /\ b = "commands"
                /\ hbPc' = "dispatch" /\ hbIdx' = 1
                /\ \E n \in 0..MaxBatch : hbLen' = n
                /\ restartStreak' = -1 /\ restartCount' = 0
                /\ UNCHANGED <<hbTimer, hbCmd>>
    /\ UNCHANGED <<hbCancel, hbEvents, hbDispatched, hbLastKind,
                   hbInterleaved>>
    /\ UNCHANGED supVars /\ UNCHANGED wsVars

\* Lines 320-321: a status other than 200, with whatever body b; logged,
\* the body is not read.
HbPostNon200 ==
    /\ hbPc = "post" /\ ~hbCancel
    /\ hbStatus' = "non200"
    /\ \E b \in Bodies : hbSent' = b
    /\ EndTick(FALSE)
    /\ UNCHANGED <<hbCancel, hbBody, hbLen, hbIdx, hbEvents, hbDispatched,
                   hbRaised, hbLastKind, hbInterleaved>>
    /\ UNCHANGED supVars /\ UNCHANGED wsVars

\* Lines 309-318, status 200 and a body without a commands array to walk:
\* response.json() raises, the "in" test raises, the entry is absent, or
\* process_commands raises at its for statement (the entry is not iterable).
\* Each failure is logged at line 318.
HbPost200NoArray ==
    /\ hbPc = "post" /\ ~hbCancel
    /\ \E b \in Bodies \ {"commands"} :
          /\ hbBody' = b
          /\ hbRaised' = (b = "null_commands")
    /\ hbStatus' = "ok200"
    /\ EndTick(FALSE)
    /\ UNCHANGED <<hbCancel, hbLastKind, hbLen, hbIdx, hbEvents, hbDispatched,
                   hbInterleaved>>
    /\ UNCHANGED supVars /\ UNCHANGED wsVars
    /\ UNCHANGED hbSent

\* Lines 314-316, status 200 and a commands array of n elements:
\* process_commands is called with it.
HbPost200Commands ==
    /\ hbPc = "post" /\ ~hbCancel
    /\ \E n \in 0..MaxBatch :
          /\ hbLen' = n
          /\ restartStreak' = StreakAfter(n = 1)
          /\ restartCount' = CountAfter(n = 1)
    /\ hbStatus' = "ok200" /\ hbBody' = "commands"
    /\ hbPc' = "dispatch" /\ hbIdx' = 1
    /\ UNCHANGED <<hbCancel, hbTimer, hbCmd, hbEvents, hbDispatched, hbRaised,
                   hbLastKind,
                   hbInterleaved>>
    /\ UNCHANGED supVars /\ UNCHANGED wsVars
    /\ UNCHANGED hbSent

\* process_commands line 328, the array is exhausted: return to
\* send_heartbeat, which returns to the loop.
HbBatchDone ==
    /\ hbPc = "dispatch" /\ ~MoreCommands(hbIdx, hbLen)
    /\ EndTick(hbLen = 1)
    /\ UNCHANGED <<hbCancel, hbStatus, hbBody, hbLen, hbIdx, hbEvents,
                   hbDispatched, hbRaised, hbLastKind, hbInterleaved>>
    /\ UNCHANGED supVars /\ UNCHANGED wsVars
    /\ UNCHANGED hbSent

\* process_commands lines 328-347 for the element c at hbIdx, up to the
\* await of its executor action.
HbDispatch ==
    /\ hbPc = "dispatch" /\ MoreCommands(hbIdx, hbLen)
    /\ \E c \in Commands :
          LET o == DispatchOutcome(c)
              single == c = Cmd("restart", "map")
              restarts == o = "invoke" /\ ExecutorAction(c.type) = "restart_system"
              tracked == single /\ restartStreak >= 0
          IN  /\ hbDispatched' = hbDispatched + 1
              /\ hbLastKind' = CmdKind(c)
              /\ restartStreak' = StreakAfter(single)
              /\ \/ /\ o = "escape"        \* caught at line 317
                    /\ hbRaised' = TRUE
                    /\ hbPc' = "sleep" /\ hbTimer' = HeartbeatInterval
                    /\ restartCount' = 0
                    /\ UNCHANGED <<hbIdx, hbCmd, hbEvents>>
                 \/ /\ o = "unknown"       \* line 344
                    /\ hbIdx' = NextIndex(hbIdx)
                    /\ hbEvents' = Append(hbEvents,
                          [ev |-> CmdKind(c), idx |-> hbIdx, ok |-> TRUE])
                    /\ restartCount' = (IF tracked THEN restartCount ELSE 0)
                    /\ UNCHANGED <<hbPc, hbTimer, hbCmd, hbRaised>>
                 \/ /\ o = "invoke"        \* lines 333-342
                    /\ hbPc' = "exec" /\ hbCmd' = c
                    /\ hbEvents' = Append(hbEvents,
                          [ev |-> "start", idx |-> hbIdx, ok |-> TRUE])
                    /\ restartCount' =
                          (IF ~tracked THEN 0
                           ELSE IF restarts THEN restartCount + 1
                           ELSE restartCount)
                    /\ UNCHANGED <<hbIdx, hbTimer, hbRaised>>
    /\ UNCHANGED <<hbCancel, hbStatus, hbBody, hbLen, hbInterleaved>>
    /\ UNCHANGED supVars /\ UNCHANGED wsVars
    /\ UNCHANGED hbSent

\* The awaited executor action returns or raises; a raise is caught and
\* logged at lines 346-347; the loop goes on to the next element.
HbExecFinish ==
    /\ hbPc = "exec" /\ ~hbCancel
    /\ \E raised \in ExecutorRaises(hbCmd) :
          hbEvents' = Append(hbEvents,
              [ev |-> "finish", idx |-> hbIdx, ok |-> ~raised])
    /\ hbPc' = "dispatch" /\ hbIdx' = NextIndex(hbIdx) /\ hbCmd' = NoCmd
    /\ UNCHANGED <<hbCancel, hbTimer, hbStatus, hbBody, hbLen, hbDispatched,
                   hbRaised, hbLastKind, restartStreak, restartCount,
                   hbInterleaved>>
    /\ UNCHANGED supVars /\ UNCHANGED wsVars
    /\ UNCHANGED hbSent

\* Line 457: the sleep has run its interval; back to the loop test.
HbWake ==
    /\ hbPc = "sleep" /\ hbTimer = 0 /\ ~hbCancel
    /\ hbPc' = "top"
    /\ UNCHANGED <<hbCancel, hbTimer, hbStatus, hbBody, hbLen, hbIdx, hbCmd,
                   hbEvents, hbDispatched, hbRaised, hbLastKind, restartStreak,
                   restartCount, hbInterleaved>>
    /\ UNCHANGED supVars /\ UNCHANGED wsVars
    /\ UNCHANGED hbSent

\* An except clause at line 458 that goes on with the loop.
HbCancelledContinues ==
    /\ hbCancel /\ hbPc \in HbSuspended \cup {"top"}
    /\ hbPc' = "top" /\ hbCancel' = FALSE /\ hbCmd' = NoCmd
    /\ hbLen' = 0 /\ hbIdx' = 1
    /\ HbHistoryReset
    /\ UNCHANGED <<hbTimer, restartStreak, restartCount>>
    /\ UNCHANGED supVars /\ UNCHANGED wsVars

\* Lines 458-459: the cancellation is delivered at the await the task is
\* suspended in (the post, an executor action, the sleep) or, when it was
\* requested just as that await was over, at the await the task is about
\* to resume from; the loop breaks.
HbCancelled ==
    /\ hbCancel /\ hbPc \in HbSuspended \cup {"top"}
    /\ HbEnds /\ hbCancel' = FALSE
    /\ HbHistoryReset
    /\ UNCHANGED <<restartStreak, restartCount>>
    /\ UNCHANGED supVars /\ UNCHANGED wsVars

\* --------------------------------------------------------- stream channel
\* websocket_loop line 466 and connect_websocket lines 385-396: test
\* running; when set, connect_websocket awaits websockets.connect.
WsLoopTop ==
    /\ wsPc = "top" /\ ~wsCancel
    /\ wsPc' = (IF running THEN "connecting" ELSE "done")
    /\ UNCHANGED <<wsCancel, websocket, connState, inbox, wsCmd, wsLast,
                   wsPongs, wsInvoked, wsRaised, wsPrevRaised, wsRetry,
                   wsElapsed>>
    /\ UNCHANGED supVars /\ UNCHANGED hbVars
    /\ UNCHANGED <<wsConn, openConns, wsPongConn, wsFirst>>

\* A connect_websocket that gives the whole agent up when it cannot
\* connect.
WsConnectFailStopsAgent ==
    /\ wsPc = "connecting" /\ ~wsCancel
    /\ wsPc' = "top" /\ wsRetry' = TRUE /\ wsElapsed' = 0
    /\ running' = FALSE
    /\ UNCHANGED <<wsCancel, websocket, wsConn, openConns, wsPongConn,
                   wsFirst, connState, inbox, wsCmd, wsLast, wsPongs,
                   wsInvoked, wsRaised, wsPrevRaised>>
    /\ UNCHANGED <<supPc, session>> /\ UNCHANGED hbVars

\* Lines 407-408: the connection attempt fails; connect_websocket logs it
\* and returns to websocket_loop, whose except branch is not entered.
WsConnectFail ==
    /\ wsPc = "connecting" /\ ~wsCancel
    /\ wsPc' = "top" /\ wsRetry' = TRUE /\ wsElapsed' = 0
    /\ UNCHANGED <<wsCancel, websocket, connState, inbox, wsCmd, wsLast,
                   wsPongs, wsInvoked, wsRaised, wsPrevRaised>>
    /\ UNCHANGED supVars /\ UNCHANGED hbVars
    /\ UNCHANGED <<wsConn, openConns, wsPongConn, wsFirst>>

\* A connect_websocket without the assignment of line 397.
WsConnectOkUnassigned ==
    /\ wsPc = "connecting" /\ ~wsCancel
    /\ wsPc' = "recv" /\ connState' = "open"
    /\ wsConn' = NewConn
    /\ openConns' = {Aged(c) : c \in openConns} \cup {NewConn}
    /\ wsFirst' = (IF wsFirst = NoConn THEN NewConn ELSE Aged(wsFirst))
    /\ websocket' = Aged(websocket)
    /\ inbox' = 0
    /\ wsRetry' = TRUE /\ wsElapsed' = 0
    /\ WsHistoryReset
    /\ UNCHANGED <<wsCancel, wsCmd>>
    /\ UNCHANGED supVars /\ UNCHANGED hbVars

\* Lines 396-400: connected; self.websocket is set to the new connection
\* and the receive loop waits for the first message.
WsConnectOk ==
    /\ wsPc = "connecting" /\ ~wsCancel
    /\ wsPc' = "recv" /\ connState' = "open"
    /\ wsConn' = NewConn
    /\ openConns' = {Aged(c) : c \in openConns} \cup {NewConn}
    /\ wsFirst' = (IF wsFirst = NoConn THEN NewConn ELSE Aged(wsFirst))
    /\ websocket' = NewConn
    /\ inbox' = 0
    /\ wsRetry' = TRUE /\ wsElapsed' = 0
    /\ WsHistoryReset
    /\ UNCHANGED <<wsCancel, wsCmd>>
    /\ UNCHANGED supVars /\ UNCHANGED hbVars

\* The server sends a message on the open connection.
ServerPush ==
    /\ connState = "open" /\ inbox < MaxInbox
    /\ inbox' = inbox + 1
    /\ UNCHANGED <<wsPc, wsCancel, websocket, connState, wsCmd, wsLast,
                   wsPongs, wsInvoked, wsRaised, wsPrevRaised, wsRetry,
                   wsElapsed>>
    /\ UNCHANGED supVars /\ UNCHANGED hbVars
    /\ UNCHANGED <<wsConn, openConns, wsPongConn, wsFirst>>

\* The server closes the connection, or the connection breaks.
RemoteClose ==
    /\ connState = "open"
    /\ connState' = "remote_closed"
    /\ UNCHANGED <<wsPc, wsCancel, websocket, inbox, wsCmd, wsLast, wsPongs,
                   wsInvoked, wsRaised, wsPrevRaised, wsRetry, wsElapsed>>
    /\ UNCHANGED supVars /\ UNCHANGED hbVars
    /\ UNCHANGED <<wsConn, openConns, wsPongConn, wsFirst>>

\* Lines 400-405 with handle_websocket_message, lines 412-420, and
\* process_commands for a command message, up to the await of the executor
\* action: the next message is read, parsed and handled; whatever raises is
\* logged at line 405 and the loop waits for the next message.  m is the
\* message read.
WsRecvMsg(m) ==
    /\ wsPc = "recv" /\ inbox > 0 /\ ~wsCancel
    /\ LET o == MessageOutcome(m)
           d == IF o = "command" THEN DispatchOutcome(m.data) ELSE "none"
           nosocket == o = "ping" /\ websocket = NoConn  \* None.send raises
           failed == o \in {"json_error", "attr_error"} \/ d = "escape"
                        \/ nosocket
       IN  /\ inbox' = inbox - 1
           /\ wsLast' = MsgKind(m)
           /\ wsPrevRaised' = wsRaised
           /\ wsRaised' = failed
           /\ wsPongs' = (IF o = "ping" /\ ~nosocket THEN 1 ELSE 0)
           /\ wsPongConn' = (IF o = "ping" THEN websocket ELSE NoConn)
           /\ wsInvoked' = (d = "invoke")
           /\ wsPc' = AfterMessage(failed, d = "invoke")
           /\ wsCmd' = (IF d = "invoke" THEN m.data ELSE NoCmd)
           /\ hbInterleaved' =
                 (hbInterleaved \/
                    (d = "invoke" /\ hbPc = "dispatch" /\ hbIdx > 1
                        /\ hbIdx <= hbLen))
    /\ UNCHANGED <<wsCancel, websocket, connState, wsRetry, wsElapsed>>
    /\ UNCHANGED <<hbPc, hbCancel, hbTimer, hbStatus, hbBody, hbLen, hbIdx,
                   hbCmd, hbEvents, hbDispatched, hbRaised, hbLastKind,
                   restartStreak,
                   restartCount>>
    /\ UNCHANGED supVars
    /\ UNCHANGED <<hbSent, wsConn, openConns, wsFirst>>

\* Line 400: the receive loop gets the next message, whatever it is.
WsRecv == \E m \in Messages : WsRecvMsg(m)

\* The executor action awaited for a stream command returns or raises
\* (caught at lines 346-347); the receive loop waits for the next message.
WsExecFinish ==
    /\ wsPc = "exec" /\ ~wsCancel
    /\ \E raised \in ExecutorRaises(wsCmd) : wsCmd' = NoCmd
    /\ wsPc' = "recv"
    /\ UNCHANGED <<wsCancel, websocket, connState, inbox, wsLast, wsPongs,
                   wsInvoked, wsRaised, wsPrevRaised, wsRetry, wsElapsed>>
    /\ UNCHANGED supVars /\ UNCHANGED hbVars
    /\ UNCHANGED <<wsConn, openConns, wsPongConn, wsFirst>>

\* Line 400 ends: the connection was closed and every buffered message has
\* been read (a clean close ends the iteration, a broken connection raises
\* and is logged at line 408); connect_websocket returns to the loop.
WsStreamEnd ==
    /\ wsPc = "recv" /\ inbox = 0 /\ connState = "remote_closed"
    /\ ~wsCancel
    /\ wsPc' = "top" /\ connState' = "none"
    /\ wsConn' = NoConn /\ openConns' = openConns \ {wsConn}
    /\ wsRetry' = TRUE /\ wsElapsed' = 0
    /\ WsHistoryReset
    /\ UNCHANGED <<wsCancel, websocket, inbox, wsCmd>>
    /\ UNCHANGED supVars /\ UNCHANGED hbVars
    /\ UNCHANGED wsFirst

\* Lines 469-470: the cancellation is delivered at the await the task is
\* suspended in or about to resume from; the connection block is left and
\* the loop breaks.
WsCancelled ==
    /\ wsCancel /\ wsPc \in WsSuspended \cup {"top"}
    /\ WsEnds /\ wsCancel' = FALSE
    /\ WsHistoryReset
    /\ UNCHANGED <<websocket, wsRetry, wsElapsed>>
    /\ UNCHANGED supVars /\ UNCHANGED hbVars
    /\ UNCHANGED wsFirst

\* ---------------------------------------------------------------- clock
\* TimeStep seconds pass: a running sleep gets shorter, and the time since
\* the last connection attempt ended gets longer.
Tick ==
    /\ \/ hbPc = "sleep" /\ hbTimer > 0
       \/ wsPc = "top" /\ wsRetry /\ wsElapsed < ReconnectDelay
    /\ hbTimer' = (IF hbPc = "sleep" THEN Monus(hbTimer, TimeStep) ELSE hbTimer)
    /\ wsElapsed' =
          (IF wsPc = "top" /\ wsRetry
           THEN Min(ReconnectDelay, wsElapsed + TimeStep) ELSE wsElapsed)
    /\ UNCHANGED <<hbPc, hbCancel, hbStatus, hbBody, hbLen, hbIdx, hbCmd,
                   hbEvents, hbDispatched, hbRaised, hbLastKind, restartStreak,
                   restartCount, hbInterleaved>>
    /\ UNCHANGED <<wsPc, wsCancel, websocket, connState, inbox, wsCmd, wsLast,
                   wsPongs, wsInvoked, wsRaised, wsPrevRaised, wsRetry>>
    /\ UNCHANGED supVars
    /\ UNCHANGED <<hbSent, wsConn, openConns, wsPongConn, wsFirst>>

\* ------------------------------------------------------- specification
Next ==
    \/ Start \/ Interrupt \/ CancelRun \/ RunCancelled
    \/ HbLoopTop \/ HbCollect \/ HbPostError \/ HbPostNon200 \/ HbPost200NoArray
    \/ HbPost200Commands \/ HbBatchDone \/ HbDispatch \/ HbExecFinish
    \/ HbWake \/ HbCancelled
    \/ WsLoopTop \/ WsConnectFail \/ WsConnectOk \/ ServerPush
    \/ RemoteClose \/ WsRecv \/ WsExecFinish \/ WsStreamEnd \/ WsCancelled
    \/ Tick

Spec == Init /\ [][Next]_vars

\* The heartbeat task under the scheduling of asyncio: run() gets started,
\* the event loop resumes a task that is ready to run, the request and the
\* executor actions come back, and time passes.  Nothing is assumed of the
\* stream channel and the server.
HbFairness ==
    /\ WF_vars(Start)
    /\ WF_vars(HbLoopTop) /\ WF_vars(HbCollect)
    /\ WF_vars(HbPostError \/ HbPostNon200 \/ HbPost200NoArray
                  \/ HbPost200Commands)
    /\ WF_vars(HbDispatch) /\ WF_vars(HbBatchDone) /\ WF_vars(HbExecFinish)
    /\ WF_vars(HbWake) /\ WF_vars(Tick)

FairSpec == Spec /\ HbFairness

\* ================================================================ claims

\* Events of hbEvents that are executor invocations (start, finish).
IsInvocation(e) == e.ev \in {"start", "finish"}
Invocations(log) == SelectSeq(log, IsInvocation)

\* C1: On the stream channel a call of connect_websocket that follows an
\* earlier attempt or connection comes no sooner than the cool-down
\* (ReconnectDelay seconds) after that one ended.
C1_CooldownBetweenAttempts ==
    (wsPc = "connecting" /\ wsRetry) => wsElapsed >= ReconnectDelay

\* The step in which the receive loop reads a ping and sends the pong.
PongReply == WsRecvMsg(PingMsg)

\* C2: While the executor action of an earlier stream command is in flight
\* and a message has arrived on the connection, the agent can, when that
\* message is a ping, send the pong at once, without the action finishing
\* first.
C2_PongNotDelayedByDispatch ==
    (wsPc = "exec" /\ ~wsCancel /\ inbox > 0) => ENABLED PongReply

\* C3: When the heartbeat tick that walked a commands array is over, every
\* element of the array has been processed and no error has left
\* process_commands, whatever the elements were.
C3_BatchNeverAborted ==
    (hbPc = "sleep" /\ hbBody = "commands")
        => (hbIdx > hbLen /\ ~hbRaised)

\* C4: As long as no shutdown has been requested, both channel loops are
\* running: neither heartbeat_loop nor websocket_loop has exited, whatever
\* transport errors, statuses, bodies, stream messages, connection failures
\* and executor failures occurred.
C4_LoopsKeepRunning ==
    supPc = "gather" => (hbPc \notin {"init", "done"} /\ wsPc \notin {"init", "done"})

\* C4 witness: no shutdown was requested; the last heartbeat body was
\* unparseable, and the stream channel, connected again after an earlier
\* attempt, has just logged a malformed message.
C4_Witness ==
    /\ supPc = "gather"
    /\ hbPc = "sleep" /\ hbStatus = "ok200" /\ hbBody = "unparseable"
    /\ wsRetry /\ wsPc = "recv" /\ wsRaised /\ wsLast = "invalid_json"

\* C5: After a malformed stream message (invalid JSON, JSON that is no
\* mapping, a command message whose data is no mapping) the agent is still
\* in the receive loop of the same connection, which it has not closed.
C5_MalformedKeepsConnection ==
    (wsLast \in {"invalid_json", "non_mapping", "command_nonmap"} \/ wsRaised)
        => (wsPc = "recv" /\ websocket # NoConn
               /\ connState \in {"open", "remote_closed"})

\* C5 witness: the message after a malformed one was read on the same
\* connection and handled (a ping, answered with a pong).
C5_Witness ==
    wsPrevRaised /\ wsLast = "ping" /\ wsPongs = 1 /\ connState = "open"

\* C6: The executor invocations of one heartbeat response happen in array
\* order, one at a time: each start is followed by the finish of the same
\* element before the next start, and positions strictly increase.
C6_ArrayOrder ==
    LET inv == Invocations(hbEvents)
    IN  /\ \A k \in 1..Len(inv) :
              /\ inv[k].ev = (IF k % 2 = 1 THEN "start" ELSE "finish")
              /\ inv[k].idx \in 1..hbLen
              /\ (k % 2 = 0) => inv[k].idx = inv[k - 1].idx
              /\ (k % 2 = 1 /\ k > 1) => inv[k].idx > inv[k - 1].idx
        /\ (Len(inv) % 2 = 1) => hbPc = "exec"
        /\ (hbPc = "exec" /\ ~hbCancel) => (Len(inv) % 2 = 1)

\* C6 witness: two elements of one response were invoked in order and a
\* stream command's executor action started between them.
C6_Witness ==
    /\ hbInterleaved
    /\ Len(Invocations(hbEvents)) = 4
    /\ hbEvents[1].idx = 1 /\ hbEvents[4].idx = 2

C8_NoCommandsNoDispatch ==
    (hbStatus = "ok200"
        /\ (hbBody \in {"no_commands", "list"} \/ (hbBody = "commands" /\ hbLen = 0)))
        => (hbDispatched = 0 /\ hbEvents = <<>> /\ hbPc # "exec")

\* C8 witness: a tick answered 200 with an empty commands array is over.
C8_Witness ==
    hbStatus = "ok200" /\ hbBody = "commands" /\ hbLen = 0 /\ hbPc = "sleep"
        /\ hbDispatched = 0

\* C9: Dispatching a command whose type is none of the five known ones (or
\* is missing) is a step that invokes no executor action, raises nothing
\* and changes nothing of the calling loop but its position, which moves to
\* the next element (heartbeat) or the next message (stream).
C9_UnknownKindIsNoOp ==
    [][ /\ (hbPc = "dispatch" /\ hbDispatched' = hbDispatched + 1
                /\ hbLastKind' = "unknown")
            => /\ hbPc' = "dispatch" /\ hbIdx' = hbIdx + 1 /\ hbLen' = hbLen
               /\ hbRaised' = hbRaised /\ hbCmd' = hbCmd
               /\ Invocations(hbEvents') = Invocations(hbEvents)
               /\ running' = running
               /\ UNCHANGED <<wsPc, connState, websocket, wsCmd>>
        /\ (wsPc = "recv" /\ ~wsCancel /\ inbox > 0 /\ inbox' = inbox - 1
                /\ wsLast' = "command_unknown")
            => /\ wsPc' = "recv" /\ ~wsRaised' /\ ~wsInvoked' /\ wsCmd' = wsCmd
               /\ connState' = connState /\ websocket' = websocket
               /\ running' = running
               /\ UNCHANGED <<hbPc, hbIdx, hbCmd, hbEvents>>
      ]_vars

\* C9 witness: the heartbeat loop met an unknown type at position 1 and went
\* on to invoke the action of the element at position 2; the stream loop
\* has read a command of unknown type and waits for the next message.
C9_Witness ==
    /\ Len(hbEvents) = 3 /\ hbEvents[1].ev = "unknown" /\ hbEvents[3].idx = 2
    /\ wsLast = "command_unknown" /\ wsPc = "recv"

\* C10: While every heartbeat has been answered 200 with exactly one restart
\* command, the restart action has been invoked once per completed tick:
\* between ticks and when the next request starts the count equals the
\* number of completed ticks, and within a tick it is at most one ahead.
C10_OneRestartPerTick ==
    restartStreak >= 0 =>
        /\ restartCount \in {restartStreak, restartStreak + 1}
        /\ hbPc \in {"top", "collect", "post", "sleep"}
            => restartCount = restartStreak
        /\ hbPc = "exec" => restartCount = restartStreak + 1

\* C10 witness: MaxTicks ticks are over, each answered with one restart.
C10_Witness ==
    restartStreak = MaxTicks /\ restartCount = MaxTicks /\ hbPc = "sleep"

\* C11: When shutdown is signalled while heartbeat_loop is in its inter-tick
\* sleep, the loop can exit at once, whatever is left of the sleep; it does
\* not leave the sleep in any other way, and once it has exited it starts
\* nothing again.
C11_SleepCancelled ==
    [][ /\ (hbPc = "sleep" /\ hbCancel)
            => /\ ENABLED HbCancelled
               /\ hbPc' \in {"sleep", "done"}
               /\ hbPc' = "sleep" => hbCancel'
        /\ hbPc = "done" => hbPc' = "done"
      ]_vars

\* C11 witness: the loop has exited with part of its sleep left, and run()
\* is over.
C11_Witness ==
    hbPc = "done" /\ hbTimer > 0 /\ supPc = "stopped"

\* C12: After a shutdown request both tasks have their cancellation
\* signalled, and run() has returned (the supervisor is stopped) only when
\* both channel loops have exited.
C12_StoppedAfterLoopsExit ==
    /\ supPc \in {"unwinding", "stopped"}
        => /\ hbPc = "done" \/ hbCancel
           /\ wsPc = "done" \/ wsCancel
    /\ supPc = "stopped" => (hbPc = "done" /\ wsPc = "done")

\* Position of a supervisor state in Idle, Running, Stopping, Stopped.
LifecycleRank(pc) ==
    CASE pc = "idle" -> 0
      [] pc = "gather" -> 1
      [] pc = "unwinding" -> 2
      [] OTHER -> 3

\* C14: The supervisor never goes back in its lifecycle; running is set
\* only by the one step from idle to running, and once stopping has begun
\* it is never set again and no channel loop is started.
C14_LinearLifecycle ==
    [][ /\ LifecycleRank(supPc') >= LifecycleRank(supPc)
        /\ (running' /\ ~running) => (supPc = "idle" /\ supPc' = "gather")
        /\ ((hbPc \in {"init", "done"} /\ hbPc' \notin {"init", "done"})
               \/ (wsPc \in {"init", "done"} /\ wsPc' \notin {"init", "done"}))
            => supPc = "idle"
      ]_vars

\* C14 witness: the shutdown handler has cleared running, run() is over and
\* both loops have exited.
C14_Witness ==
    supPc = "stopped" /\ ~running /\ hbPc = "done" /\ wsPc = "done"

\* C15: Each channel works strictly in sequence.  A heartbeat request is
\* started only from the loop test, with no executor action of an earlier
\* tick in flight; a stream message is read only by the receive loop while
\* it waits, with no executor action of an earlier message in flight; and
\* an executor action is in flight only while its loop awaits it.
C15_SequentialPerChannel ==
    [][ /\ (hbPc' = "post" /\ hbPc # "post")
            => (hbPc = "collect" /\ hbCmd = NoCmd)
        /\ (inbox' = inbox - 1 /\ wsPc' # "done")
            => (wsPc = "recv" /\ wsCmd = NoCmd)
        /\ hbCmd # NoCmd => hbPc = "exec"
        /\ wsCmd # NoCmd => wsPc = "exec"
      ]_vars

\* C15 witness: the second tick starts after a tick that ran a restart, and
\* the stream loop awaits the action of a command it read after an earlier
\* message.
C15_Witness ==
    /\ hbPc = "post" /\ restartStreak = 1 /\ restartCount = 1
    /\ wsPc = "exec" /\ wsInvoked /\ wsPrevRaised

\* C16: Whatever the outcome of a tick (transport error, non-200 status,
\* any body), the loop goes from the tick into one sleep of exactly
\* HeartbeatInterval seconds, the sleep only runs down and ends when
\* nothing is left of it, and the loop then starts the next request; while
\* no shutdown was requested it goes nowhere else.
C16_SleepOnceThenTick ==
    [][ /\ (hbPc \in {"post", "dispatch"}
               /\ hbPc' \notin {"post", "dispatch", "exec", "done"})
            => (hbPc' = "sleep" /\ hbTimer' = HeartbeatInterval)
        /\ (hbPc = "sleep" /\ hbPc' = "sleep") => hbTimer' <= hbTimer
        /\ (hbPc = "sleep" /\ hbPc' \notin {"sleep", "done"})
            => (hbPc' = "top" /\ hbTimer = 0)
        /\ (hbPc = "top" /\ hbPc' \notin {"top", "done"}) => hbPc' = "collect"
        /\ (hbPc = "collect" /\ hbPc' \notin {"collect", "done"})
            => hbPc' = "post"
        /\ (hbPc' = "done" /\ hbPc # "done") => supPc' # "gather"
      ]_vars

\* C16 witness: after a request that failed in transport the sleep has run
\* its interval and the loop is at its test again, no shutdown requested.
C16_Witness ==
    hbPc = "top" /\ hbStatus = "error" /\ hbTimer = 0 /\ supPc = "gather"

\* C17: In a tick whose answer had a status other than 200, the body is
\* not read and process_commands is not entered, whatever body came with
\* the answer.
C17_Non200BodyIgnored ==
    hbStatus = "non200"
        => /\ hbBody = "none" /\ ~hbRaised
           /\ hbDispatched = 0 /\ hbEvents = <<>> /\ hbCmd = NoCmd
           /\ hbPc \in {"sleep", "top", "done"}

\* C17 witness: a non-200 answer that carried a commands array; the tick
\* is over and nothing was dispatched.
C17_Witness ==
    /\ hbStatus = "non200" /\ hbSent = "commands"
    /\ hbPc = "sleep" /\ hbDispatched = 0

\* C18: At most one connection is open at any time; while the receive loop
\* of a connection runs, that connection is the newest one, it is open and
\* self.websocket refers to it; and the pong for a ping went to the
\* connection the ping was read from.
C18_OneConnection ==
    /\ Cardinality(openConns) <= 1
    /\ wsPc \in {"recv", "exec"}
        => (wsConn = NewConn /\ openConns = {wsConn} /\ websocket = wsConn)
    /\ wsPc \notin {"recv", "exec"} => (wsConn = NoConn /\ openConns = {})
    /\ wsLast = "ping"
        => (wsPongs = 1 /\ wsPongConn = wsConn /\ wsConn # NoConn)

\* C18 witness: a ping was answered on a connection made after an earlier
\* connection had ended.
C18_Witness ==
    /\ wsFirst = OldConn /\ wsLast = "ping" /\ wsPongs = 1
    /\ wsPongConn = NewConn /\ wsPc = "recv"

\* C19: Once shutdown has been signalled, no heartbeat request is started
\* and no stream connection attempt is made any more.
C19_NoNewWorkAfterShutdown ==
    [][ /\ (supPc \in {"unwinding", "stopped"} /\ hbPc # "post")
            => hbPc' # "post"
        /\ (supPc \in {"unwinding", "stopped"} /\ wsPc # "connecting")
            => wsPc' # "connecting"
      ]_vars

\* Shutdown has been requested.
ShutdownRequested == supPc \in {"unwinding", "stopped"}

====
